---- MODULE Spec2Model ----
(***************************************************************************)
(* Model of embeddings/generator.py of the TeachingAssistant content       *)
(* pipeline: SemanticChunker (header split, word windowing with overlap)   *)
(* and EmbeddingGenerator.embed_chunks_to_db (batched embedding calls and  *)
(* per-row upserts into content_embeddings).                               *)
(*                                                                         *)
(* Text is modelled as a sequence of tokens.  A token is an ordinary word  *)
(* ("a", "b") or "H", which stands for a level-2 header marker at the      *)
(* start of a line: the characters "\n## ".  re.split(r'\n(?=##\s)') cuts  *)
(* the text in front of every such marker and keeps the "##" in the        *)
(* section that follows, where str.split() then counts it as a word.       *)
(***************************************************************************)
EXTENDS Integers, Sequences, FiniteSets, TLC

\* ---------------------------------------------------------------- bounds
MaxText == 5
MaxCfg == 3
MaxChunks == 2

\* Iterations of the windowing loop of one section that the model follows.
\* With step >= 1 the loop ends after at most Len(words) <= MaxText
\* iterations, so the cap only cuts the runs that never end (step <= 0).
MaxIter == MaxText + 1

Tokens == {"a", "b", "H"}

VARIABLES
    \* SemanticChunker fields (generator.py:33-35)
    max_chunk, overlap, min_chunk,
    \* chunk_content locals (generator.py:39-51)
    full_text, sections, sec, chunk_idx, chunks, cpc,
    \* _chunk_section locals (generator.py:66-106)
    i, inner_idx, section_chunks, iter,
    \* embed_chunks_to_db arguments and locals (generator.py:126-160)
    all_chunks, batch_size, off, embeddings, zi, conn, ppc, outcome,
    \* the content_embeddings table (generator.py:145-149)
    store,
    \* history of the model: the events of the current run, whether the run
    \* repeats the one before it on the same chunk list, and the table as
    \* that earlier run left it
    trace, rerun, prev_store

chunkerVars == <<max_chunk, overlap, min_chunk, full_text, sections, sec,
                 chunk_idx, chunks, cpc, i, inner_idx, section_chunks, iter>>

pipelineVars == <<all_chunks, batch_size, off, embeddings, zi, conn, ppc,
                  outcome, store, trace, rerun, prev_store>>

vars == <<chunkerVars, pipelineVars>>

\* ------------------------------------------------------------ helpers
Min(x, y) == IF x <= y THEN x ELSE y

Max(x, y) == IF x >= y THEN x ELSE y

\* All sequences over S of length 0..n.
SeqsUpTo(S, n) == UNION {[1..k -> S] : k \in 0..n}

\* Python's s[lo:hi] for a list s, negative indices included:
\* a negative bound counts from the end, and both are clamped to 0..len(s).
PyClamp(x, n) == IF x < 0 THEN Max(x + n, 0) ELSE Min(x, n)

PySlice(s, lo, hi) ==
    LET n == Len(s)
        l == PyClamp(lo, n)
        h == PyClamp(hi, n)
    IN  IF l >= h THEN <<>> ELSE SubSeq(s, l + 1, h)

\* str.split() on a section: every token is one word, the marker is "##".
Word(tok) == IF tok = "H" THEN "##" ELSE tok

Words(section) == [k \in 1..Len(section) |-> Word(section[k])]

\* The content unit that is chunked (only full_text varies).
UnitId == "u1"

UnitMeta == [subject |-> "biology", grade_band |-> "6-8",
             topic_path |-> "cells/membranes", title |-> "Cells"]

\* re.split(r'\n(?=##\s)', text): the pieces between the marker positions;
\* a marker opens the piece it stands in.
RECURSIVE RawSplit(_, _)
RawSplit(text, cur) ==
    IF text = <<>> THEN <<cur>>
    ELSE IF Head(text) = "H"
         THEN <<cur>> \o RawSplit(Tail(text), <<"H">>)
         ELSE RawSplit(Tail(text), Append(cur, Head(text)))

\* [s.strip() for s in sections if s.strip()]
NonEmpty(section) == section # <<>>

SplitByHeaders(text) == SelectSeq(RawSplit(text, <<>>), NonEmpty)

\* ContentChunk (generator.py:15-21).  sec and whole are history fields of
\* the model: the section the chunk was cut from and whether it is the
\* section kept whole (generator.py:69-81) or a window (generator.py:91-101),
\* and lo, hi, the bounds i and end of the slice words[i:end] it holds.
ContentChunk(idx, text, s, w, from, to) ==
    [content_unit_id |-> UnitId, chunk_index |-> idx, text |-> text,
     metadata |-> UnitMeta, sec |-> s, whole |-> w, lo |-> from, hi |-> to]

\* generator.py:87  end = min(i + self.max_chunk, len(words))
WindowEnd(pos, n) == Min(pos + max_chunk, n)

\* A window test that lets every candidate through.
EmitsAlways(chunk_words) == TRUE

\* generator.py:90  if len(chunk_words) >= self.min_chunk
Emits(chunk_words) == Len(chunk_words) >= min_chunk

\* generator.py:102  chunk_idx += 1 (inside the if)
NextInnerIdx(idx, chunk_words) == IF Emits(chunk_words) THEN idx + 1 ELSE idx

\* generator.py:104  i += self.max_chunk - self.overlap
Step == max_chunk - overlap

\* A counter that assumes one chunk per section.
NextChunkIdxOnePerSection(idx, produced) == idx + 1

\* generator.py:49  chunk_idx += len(section_chunks)
NextChunkIdx(idx, produced) == idx + Len(produced)

\* ------------------------------------------------ pipeline definitions
\* The chunk lists handed to embed_chunks_to_db: the chunks of one content
\* unit as chunk_content numbers them (chunk_index 0..k-1), each with a
\* text, all with the unit's metadata (generator.py:75-80, 95-100).
ChunkTexts == {"t1", "t2"}

UnitMetas == {"m1", "m2"}

ChunkLists ==
    UNION {
        { [j \in 1..k |-> [content_unit_id |-> UnitId, chunk_index |-> j - 1,
                           text |-> texts[j], metadata |-> meta]]
          : texts \in [1..k -> ChunkTexts], meta \in UnitMetas }
        : k \in 1..MaxChunks }

\* The embedding service (generator.py:116-124) is a function of the text:
\* the vector it computes for a text is the same in every call.
EmbeddingOf(text) == <<"vec", text>>

\* json.dumps(chunk.metadata), generator.py:155
JsonDumps(meta) == <<"json", meta>>

SameKey(row, chunk) ==
    /\ row.content_unit_id = chunk.content_unit_id
    /\ row.chunk_index = chunk.chunk_index

NewRow(chunk, embedding) ==
    [content_unit_id |-> chunk.content_unit_id,
     chunk_index |-> chunk.chunk_index,
     chunk_text |-> chunk.text,
     embedding |-> embedding,
     metadata |-> JsonDumps(chunk.metadata)]

\* The table is kept as the list of its rows in key order (one content
\* unit, so the order of chunk_index); a new row goes to its place.
InsertRow(table, row) ==
    LET before == SelectSeq(table, LAMBDA r : r.chunk_index <= row.chunk_index)
        after == SelectSeq(table, LAMBDA r : r.chunk_index > row.chunk_index)
    IN  before \o <<row>> \o after

\* An INSERT with no conflict clause on a table with no unique constraint.
InsertAlways(table, chunk, embedding) == InsertRow(table, NewRow(chunk, embedding))

\* generator.py:144-156  INSERT ... ON CONFLICT (content_unit_id, chunk_index)
\* DO UPDATE SET embedding = EXCLUDED.embedding
Upsert(table, chunk, embedding) ==
    IF \E r \in 1..Len(table) : SameKey(table[r], chunk)
    THEN [r \in 1..Len(table) |->
             IF SameKey(table[r], chunk)
             THEN [table[r] EXCEPT !.embedding = embedding]
             ELSE table[r]]
    ELSE InsertRow(table, NewRow(chunk, embedding))

\* generator.py:137  batch = chunks[i:i + batch_size]
Batch == PySlice(all_chunks, off, off + batch_size)

\* generator.py:158  i//batch_size + 1
BatchNo == (off \div batch_size) + 1

\* generator.py:143  zip(batch, embeddings) stops at the shorter of the two
ZipLen == Min(Len(Batch), Len(embeddings))

\* A loop that moves on without waiting for the batch's writes.
ZipExhaustedNoWait == TRUE

\* generator.py:143  the for loop over zip(...) has run out
ZipExhausted == zi > ZipLen

\* No run in progress, nothing stored.
PipelineIdle ==
    /\ all_chunks = <<>>
    /\ batch_size = 1
    /\ off = 0
    /\ embeddings = <<>>
    /\ zi = 1
    /\ conn = "none"
    /\ ppc = "idle"
    /\ outcome = "none"
    /\ store = <<>>
    /\ trace = <<>>
    /\ rerun = FALSE
    /\ prev_store = <<>>

ChunkerParked ==
    /\ max_chunk = 1
    /\ overlap = 0
    /\ min_chunk = 0
    /\ full_text = <<>>
    /\ sections = <<>>
    /\ sec = 0
    /\ chunk_idx = 0
    /\ chunks = <<>>
    /\ cpc = "parked"
    /\ i = 0
    /\ inner_idx = 0
    /\ section_chunks = <<>>
    /\ iter = 0

PipelineInit == ChunkerParked /\ PipelineIdle


\* ------------------------------------------------------------ chunker
\* SemanticChunker.__init__ stores the three numbers unchecked, so every
\* combination is a constructed chunker; chunk_content is then called on a
\* content unit with an arbitrary full_text.  The numbers are token counts:
\* max_chunk_tokens >= 1, overlap_tokens >= 0, min_chunk_tokens >= 0, with
\* overlap_tokens >= max_chunk_tokens (step <= 0) among them.
ChunkerInit ==
    /\ max_chunk \in 1..MaxCfg
    /\ overlap \in 0..MaxCfg
    /\ min_chunk \in 0..MaxCfg
    /\ full_text \in SeqsUpTo(Tokens, MaxText)
    /\ sections = <<>>
    /\ sec = 0
    /\ chunk_idx = 0
    /\ chunks = <<>>
    /\ cpc = "call"
    /\ i = 0
    /\ inner_idx = 0
    /\ section_chunks = <<>>
    /\ iter = 0
    /\ PipelineIdle

\* chunk_content, lines 39-45: split the text, start the counter.
ChunkContentBegin ==
    /\ cpc = "call"
    /\ sections' = SplitByHeaders(full_text)
    /\ chunks' = <<>>
    /\ chunk_idx' = 0
    /\ sec' = 1
    /\ cpc' = "sections"
    /\ UNCHANGED <<max_chunk, overlap, min_chunk, full_text, i, inner_idx,
                   section_chunks, iter>>
    /\ UNCHANGED pipelineVars

\* One pass of the for loop of chunk_content over a section that fits:
\* _chunk_section returns it whole (lines 69-81), lines 48-49 follow.
ChunkSectionWhole ==
    /\ cpc = "sections"
    /\ sec <= Len(sections)
    /\ Len(Words(sections[sec])) <= max_chunk
    /\ LET produced == <<ContentChunk(chunk_idx, Words(sections[sec]), sec, TRUE,
                                        0, Len(Words(sections[sec])))>>
       IN  /\ chunks' = chunks \o produced
           /\ chunk_idx' = NextChunkIdx(chunk_idx, produced)
    /\ sec' = sec + 1
    /\ UNCHANGED <<max_chunk, overlap, min_chunk, full_text, sections, cpc,
                   i, inner_idx, section_chunks, iter>>
    /\ UNCHANGED pipelineVars

\* _chunk_section on a longer section, lines 84-85.
WindowBegin ==
    /\ cpc = "sections"
    /\ sec <= Len(sections)
    /\ Len(Words(sections[sec])) > max_chunk
    /\ i' = 0
    /\ inner_idx' = chunk_idx
    /\ section_chunks' = <<>>
    /\ iter' = 0
    /\ cpc' = "window"
    /\ UNCHANGED <<max_chunk, overlap, min_chunk, full_text, sections, sec,
                   chunk_idx, chunks>>
    /\ UNCHANGED pipelineVars

\* One iteration of the while loop, lines 86-104.
WindowStep ==
    /\ cpc = "window"
    /\ i < Len(Words(sections[sec]))
    /\ iter < MaxIter
    /\ LET words == Words(sections[sec])
           chunk_words == PySlice(words, i, WindowEnd(i, Len(words)))
       IN  /\ section_chunks' =
                 IF Emits(chunk_words)
                 THEN Append(section_chunks,
                             ContentChunk(inner_idx, chunk_words, sec, FALSE,
                                          i, WindowEnd(i, Len(words))))
                 ELSE section_chunks
           /\ inner_idx' = NextInnerIdx(inner_idx, chunk_words)
    /\ i' = i + Step
    /\ iter' = iter + 1
    /\ UNCHANGED <<max_chunk, overlap, min_chunk, full_text, sections, sec,
                   chunk_idx, chunks, cpc>>
    /\ UNCHANGED pipelineVars

\* The while loop ends, _chunk_section returns (line 106), lines 48-49.
WindowReturn ==
    /\ cpc = "window"
    /\ i >= Len(Words(sections[sec]))
    /\ chunks' = chunks \o section_chunks
    /\ chunk_idx' = NextChunkIdx(chunk_idx, section_chunks)
    /\ section_chunks' = <<>>
    /\ sec' = sec + 1
    /\ cpc' = "sections"
    /\ UNCHANGED <<max_chunk, overlap, min_chunk, full_text, sections,
                   i, inner_idx, iter>>
    /\ UNCHANGED pipelineVars

\* chunk_content returns chunks, line 51.
ChunkContentReturn ==
    /\ cpc = "sections"
    /\ sec > Len(sections)
    /\ cpc' = "done"
    /\ UNCHANGED <<max_chunk, overlap, min_chunk, full_text, sections, sec,
                   chunk_idx, chunks, i, inner_idx, section_chunks, iter>>
    /\ UNCHANGED pipelineVars

ChunkerNext ==
    \/ ChunkContentBegin
    \/ ChunkSectionWhole
    \/ WindowBegin
    \/ WindowStep
    \/ WindowReturn
    \/ ChunkContentReturn

ChunkerSpec == ChunkerInit /\ [][ChunkerNext]_vars

\* ----------------------------------------------------------- pipeline
\* Every chunk of the list was written in the current run.
AllWritten ==
    \A j \in 1..Len(all_chunks) :
        \E p \in 1..Len(trace) : trace[p].ev = "write" /\ trace[p].pos = j

\* generator.py:184, 133, 136: a program run calls embed_chunks_to_db on a
\* chunk list; the connection opens and the batch loop starts at i = 0.
\* (A batch_size above the length of the list acts like one equal to it.)
StartRun ==
    /\ ppc = "idle"
    /\ \E list \in ChunkLists, bs \in 1..MaxChunks :
          /\ bs <= Len(list)
          /\ all_chunks' = list
          /\ batch_size' = bs
    /\ off' = 0
    /\ embeddings' = <<>>
    /\ zi' = 1
    /\ conn' = "open"
    /\ ppc' = "loop"
    /\ outcome' = "running"
    /\ trace' = <<>>
    /\ rerun' = FALSE
    /\ prev_store' = <<>>
    /\ UNCHANGED store
    /\ UNCHANGED chunkerVars

\* The program is run again on the identical input after a run that wrote
\* every pair.
Rerun ==
    /\ ppc = "done"
    /\ outcome = "returned"
    /\ AllWritten
    /\ off' = 0
    /\ embeddings' = <<>>
    /\ zi' = 1
    /\ conn' = "open"
    /\ ppc' = "loop"
    /\ outcome' = "running"
    /\ trace' = <<>>
    /\ rerun' = TRUE
    /\ prev_store' = store
    /\ UNCHANGED <<all_chunks, batch_size, store>>
    /\ UNCHANGED chunkerVars

\* generator.py:136-140, 119: the next batch is cut and its texts are posted.
EmbedCall ==
    /\ ppc = "loop"
    /\ off < Len(all_chunks)
    /\ ppc' = "embedding"
    /\ trace' = Append(trace, [ev |-> "embed_call", batch |-> BatchNo, pos |-> 0])
    /\ UNCHANGED <<all_chunks, batch_size, off, embeddings, zi, conn, outcome,
                   store, rerun, prev_store>>
    /\ UNCHANGED chunkerVars

\* generator.py:123-124, 140: the service answers; response.json() is
\* returned as it is, whatever its length (here the vectors of the first m
\* texts, m <= len(texts)).
EmbedReturn ==
    /\ ppc = "embedding"
    /\ \E m \in 0..Len(Batch) :
          /\ embeddings' = [k \in 1..m |-> EmbeddingOf(Batch[k].text)]
          /\ trace' = Append(trace, [ev |-> "embed_ret", batch |-> BatchNo, pos |-> m])
    /\ zi' = 1
    /\ ppc' = "writing"
    /\ UNCHANGED <<all_chunks, batch_size, off, conn, outcome, store, rerun,
                   prev_store>>
    /\ UNCHANGED chunkerVars

\* generator.py:119-123, 159-160: the request times out or raise_for_status
\* raises; the finally clause closes the connection and the exception
\* leaves embed_chunks_to_db.
EmbedRaise ==
    /\ ppc = "embedding"
    /\ trace' = Append(trace, [ev |-> "embed_raise", batch |-> BatchNo, pos |-> 0])
    /\ conn' = "closed"
    /\ outcome' = "raised"
    /\ ppc' = "done"
    /\ UNCHANGED <<all_chunks, batch_size, off, embeddings, zi, store, rerun,
                   prev_store>>
    /\ UNCHANGED chunkerVars

\* generator.py:143-156: one pass of the zip loop, one statement executed.
Write ==
    /\ ppc = "writing"
    /\ zi <= ZipLen
    /\ store' = Upsert(store, Batch[zi], embeddings[zi])
    /\ trace' = Append(trace, [ev |-> "write", batch |-> BatchNo, pos |-> off + zi])
    /\ zi' = zi + 1
    /\ UNCHANGED <<all_chunks, batch_size, off, embeddings, conn, ppc, outcome,
                   rerun, prev_store>>
    /\ UNCHANGED chunkerVars

\* generator.py:144, 159-160: conn.execute raises; earlier rows stay as
\* written (no transaction), the connection is closed, the exception leaves.
WriteRaise ==
    /\ ppc = "writing"
    /\ zi <= ZipLen
    /\ trace' = Append(trace, [ev |-> "write_raise", batch |-> BatchNo, pos |-> off + zi])
    /\ conn' = "closed"
    /\ outcome' = "raised"
    /\ ppc' = "done"
    /\ UNCHANGED <<all_chunks, batch_size, off, embeddings, zi, store, rerun,
                   prev_store>>
    /\ UNCHANGED chunkerVars

\* generator.py:158, 136: the batch is reported, the loop moves on.
BatchEnd ==
    /\ ppc = "writing"
    /\ ZipExhausted
    /\ trace' = Append(trace, [ev |-> "print", batch |-> BatchNo, pos |-> 0])
    /\ off' = off + batch_size
    /\ ppc' = "loop"
    /\ UNCHANGED <<all_chunks, batch_size, embeddings, zi, conn, outcome,
                   store, rerun, prev_store>>
    /\ UNCHANGED chunkerVars

\* generator.py:136, 159-160: the range is exhausted, the connection is
\* closed, embed_chunks_to_db returns None.
RunReturn ==
    /\ ppc = "loop"
    /\ off >= Len(all_chunks)
    /\ conn' = "closed"
    /\ outcome' = "returned"
    /\ ppc' = "done"
    /\ UNCHANGED <<all_chunks, batch_size, off, embeddings, zi, store, trace,
                   rerun, prev_store>>
    /\ UNCHANGED chunkerVars

\* The process ends; only the table outlives it.
ProcessExit ==
    /\ ppc = "done"
    /\ all_chunks' = <<>>
    /\ batch_size' = 1
    /\ off' = 0
    /\ embeddings' = <<>>
    /\ zi' = 1
    /\ conn' = "none"
    /\ ppc' = "idle"
    /\ outcome' = "none"
    /\ trace' = <<>>
    /\ rerun' = FALSE
    /\ prev_store' = <<>>
    /\ UNCHANGED store
    /\ UNCHANGED chunkerVars

PipelineNext ==
    \/ StartRun
    \/ Rerun
    \/ EmbedCall
    \/ EmbedReturn
    \/ EmbedRaise
    \/ Write
    \/ WriteRaise
    \/ BatchEnd
    \/ RunReturn
    \/ ProcessExit

PipelineSpec == PipelineInit /\ [][PipelineNext]_vars

\* ------------------------------------------------------ chunker claims
\* Everything emitted so far: the returned list and the current section's.
Emitted == chunks \o section_chunks

\* The number of window positions the loop visits in a section of n words.
WindowCount(n) == (n + Step - 1) \div Step

ChunksOfSection(s) == {k \in 1..Len(chunks) : chunks[k].sec = s}

\* The mathematical "last n words" and "first n words" of a word list.
LastWords(t, n) == IF n >= Len(t) THEN t ELSE SubSeq(t, Len(t) - n + 1, Len(t))

FirstWords(t, n) == IF n >= Len(t) THEN t ELSE SubSeq(t, 1, n)

\* C1: when chunk_content returns, the chunk_index values of the returned
\* chunks in list order are exactly 0, 1, ..., k-1: the counter continues
\* across sections and a dropped candidate consumes no index.
C1_IndexContiguity ==
    cpc = "done" => \A k \in 1..Len(chunks) : chunks[k].chunk_index = k - 1

\* C1 witness: a returned list in which a windowed first section lost a
\* candidate to min_chunk_tokens and a later section still got chunks.
C1_Witness ==
    /\ cpc = "done"
    /\ Step >= 1
    /\ Len(sections) >= 2
    /\ Len(Words(sections[1])) > max_chunk
    /\ ChunksOfSection(1) # {}
    /\ Cardinality(ChunksOfSection(1)) < WindowCount(Len(Words(sections[1])))
    /\ ChunksOfSection(2) # {}

\* C2: every emitted chunk has at most max_chunk_tokens words, every
\* windowed chunk has at least min_chunk_tokens words, and a section of at
\* most max_chunk_tokens words comes back as exactly one chunk, the whole
\* section, also when it is shorter than min_chunk_tokens.
C2_SizeBound ==
    /\ \A k \in 1..Len(Emitted) :
          /\ Len(Emitted[k].text) <= max_chunk
          /\ ~Emitted[k].whole => Len(Emitted[k].text) >= min_chunk
    /\ cpc = "done" =>
          \A s \in 1..Len(sections) :
              Len(Words(sections[s])) <= max_chunk =>
                  /\ Cardinality(ChunksOfSection(s)) = 1
                  /\ \A k \in ChunksOfSection(s) :
                        chunks[k].whole /\ chunks[k].text = Words(sections[s])

\* C2 witness: a returned list holding a whole section shorter than
\* min_chunk_tokens and a windowed chunk cut short by the section's end.
C2_Witness ==
    /\ cpc = "done"
    /\ \E k \in 1..Len(chunks) :
          chunks[k].whole /\ Len(chunks[k].text) < min_chunk
    /\ \E k \in 1..Len(chunks) :
          ~chunks[k].whole /\ Len(chunks[k].text) < max_chunk

\* C3: for overlap_tokens < max_chunk_tokens, two consecutive windowed
\* chunks of one section share overlap_tokens words: the last overlap_tokens
\* words of the earlier are the first overlap_tokens words of the later.
C3_OverlapLaw ==
    overlap < max_chunk =>
        \A k \in 1..(Len(Emitted) - 1) :
            ( /\ Emitted[k].sec = Emitted[k + 1].sec
              /\ ~Emitted[k].whole
              /\ ~Emitted[k + 1].whole )
            => LastWords(Emitted[k].text, overlap)
                 = FirstWords(Emitted[k + 1].text, overlap)

\* C4: a configuration with overlap_tokens >= max_chunk_tokens fails fast:
\* no chunk is ever produced under it and chunk_content never returns.
C4_InvalidConfigFailsFast ==
    overlap >= max_chunk => (Emitted = <<>> /\ cpc # "done")

\* C11: for 1 <= overlap_tokens < max_chunk_tokens, once an emitted window
\* has reached the last word of its section no further chunk is emitted for
\* that section, and no windowed chunk's word range lies inside the range
\* of the chunk emitted just before it.
C11_NoChunkAfterSectionEnd ==
    (1 <= overlap /\ overlap < max_chunk) =>
        \A k \in 1..(Len(Emitted) - 1) :
            ( /\ Emitted[k].sec = Emitted[k + 1].sec
              /\ ~Emitted[k].whole
              /\ ~Emitted[k + 1].whole )
            => /\ Emitted[k].hi < Len(Words(sections[Emitted[k].sec]))
               /\ ~( /\ Emitted[k].lo <= Emitted[k + 1].lo
                     /\ Emitted[k + 1].hi <= Emitted[k].hi )

\* ----------------------------------------------------- pipeline claims
TracePositions(kinds) == {p \in 1..Len(trace) : trace[p].ev \in kinds}

\* Chunk j of the list was written in the current run.
WrittenThisRun(j) == \E p \in TracePositions({"write"}) : trace[p].pos = j

\* The batches of the current run in which a call raised.
FailedBatches == {trace[p].batch : p \in TracePositions({"embed_raise", "write_raise"})}

\* embed_chunks_to_db has no return statement (generator.py:126-160): what
\* it returns is None, which names no failed batch.
ReturnedFailedBatches == {}

\* generator.py:137  the length of batch b of the current list
BatchLen(b) == Min(batch_size, Len(all_chunks) - (b - 1) * batch_size)

UniqueKeys(table) ==
    \A r1, r2 \in 1..Len(table) :
        (/\ table[r1].content_unit_id = table[r2].content_unit_id
         /\ table[r1].chunk_index = table[r2].chunk_index) => r1 = r2

\* C5: a run that repeats the previous run on the identical chunk list,
\* after that run persisted every pair, leaves the table as it was: the
\* same rows, one per key, the same embedding in each.
C5_IdempotentUpsert == rerun => (store = prev_store /\ UniqueKeys(store))

\* C5 witness: a repeated run that wrote every pair again and returned,
\* over a table of several rows.
C5_Witness ==
    /\ rerun
    /\ ppc = "done"
    /\ outcome = "returned"
    /\ AllWritten
    /\ Len(all_chunks) >= 2
    /\ Len(store) >= 2

\* C6: a write for a key that already has a row leaves that row with the
\* embedding and the metadata of the pair just written.
C6_LastWriteWins ==
    [][ ( /\ ppc = "writing"
          /\ zi' = zi + 1
          /\ \E r \in 1..Len(store) : SameKey(store[r], Batch[zi]) )
        => \E r \in 1..Len(store') :
              /\ SameKey(store'[r], Batch[zi])
              /\ store'[r].embedding = embeddings[zi]
              /\ store'[r].metadata = JsonDumps(Batch[zi].metadata) ]_vars

\* C7: a run in which the embedding call or a write failed on batch N does
\* not end by throwing: it returns a summary whose failed batches include N.
C7_FailuresSummarised ==
    (ppc = "done" /\ FailedBatches # {})
        => (outcome = "returned" /\ FailedBatches \subseteq ReturnedFailedBatches)

\* C8: when the run ends, every chunk handed to it was written in this run
\* or is reported as failed (the exception that ends a run is taken here to
\* report every chunk the run did not write).
C8_NoSilentDrop ==
    ppc = "done" =>
        \A j \in 1..Len(all_chunks) : WrittenThisRun(j) \/ outcome = "raised"

\* C9: batches run strictly in sequence: batch N+1's embedding call comes
\* after batch N's embedding call has returned and every write of batch N
\* is done, nothing of an earlier batch happens after a later batch has
\* begun, and no write of a batch precedes the return of its embedding call.
C9_BatchesInSequence ==
    \A p \in 1..Len(trace) :
        /\ (trace[p].ev = "embed_call" /\ trace[p].batch > 1) =>
              LET b == trace[p].batch - 1
              IN  \E q \in 1..(p - 1) :
                      /\ trace[q].ev = "embed_ret"
                      /\ trace[q].batch = b
                      /\ \A k \in 1..Min(trace[q].pos, BatchLen(b)) :
                            \E r \in (q + 1)..(p - 1) :
                                /\ trace[r].ev = "write"
                                /\ trace[r].batch = b
                                /\ trace[r].pos = (b - 1) * batch_size + k
        /\ trace[p].ev \in {"write", "write_raise"} =>
              \E q \in 1..(p - 1) :
                  trace[q].ev = "embed_ret" /\ trace[q].batch = trace[p].batch
        /\ \A r \in (p + 1)..Len(trace) : trace[r].batch >= trace[p].batch

\* C9 witness: a finished run of two batches, each embedded and written.
C9_Witness ==
    /\ ppc = "done"
    /\ outcome = "returned"
    /\ AllWritten
    /\ \E p \in TracePositions({"write"}) : trace[p].batch = 1
    /\ \E p \in TracePositions({"embed_call"}) : trace[p].batch = 2
    /\ \E p \in TracePositions({"write"}) : trace[p].batch = 2

\* C10: after any sequence of runs, the embedding of every stored row is
\* the embedding computed from that row's stored chunk_text.
C10_EmbeddingMatchesStoredText ==
    \A r \in 1..Len(store) : store[r].embedding = EmbeddingOf(store[r].chunk_text)

====
